---- MODULE Spec2Model ----
(***************************************************************************)
(* Model of the NCAA football betting dashboard.                           *)
(*                                                                         *)
(*   web-dashboard/src/app/page.tsx   processPredictions,                  *)
(*                                    calculatePerformance,                *)
(*                                    fetchBettingData and the render      *)
(*                                    guards of BettingDashboard           *)
(*   unnamed/part_000                 the themed variant's bettingOpps and *)
(*                                    win-rate aggregate, fetchData and    *)
(*                                    the slider                           *)
(*   web-dashboard/src/app/api/predictions/route.ts                        *)
(*                                    GET: the two sheet reads and the     *)
(*                                    conversion of tables to records      *)
(*                                                                         *)
(* Specifications.                                                         *)
(*   SpecOpps  one call of processPredictions (or one themed render) on    *)
(*             an argument drawn from the bounded input sets               *)
(*   SpecPerf  one call of calculatePerformance (or the themed aggregate)  *)
(*   Spec      the page.tsx dashboard: mount, Refresh, Retry and the       *)
(*             settling of each fetch, as built for production (the mount  *)
(*             effect runs once)                                           *)
(*   SpecStrict  the same dashboard in a development build, where the      *)
(*             mount effect runs twice and two fetches are in flight       *)
(*   SpecRoute one GET of /api/predictions on bounded sheet contents       *)
(*   SpecLive  Spec with weak fairness of the mount effect and of the      *)
(*             settling of fetch() and response.json()                     *)
(*   SpecThemed  the themed dashboard of part_000: fetchData, the          *)
(*             minimum-edge slider and the render guards                   *)
(*                                                                         *)
(* Numbers.  Every number of the program that comes from a spreadsheet     *)
(* cell (edge, predicted differential, Vegas line) is held in TENTHS as an *)
(* integer: the cell text "1.9" parses to 19, the breakpoint 2.0 is 20.    *)
(* Cell texts carry at most one fractional digit.  A JavaScript string     *)
(* that the code parses or formats is a sequence of one-character strings, *)
(* so that parseFloat and template formatting are computed, not assumed.   *)
(***************************************************************************)
EXTENDS Integers, Sequences, FiniteSets, TLC

VARIABLES
    predictions,    \* processPredictions: the argument (array of sheet rows)
    bettingOpps,    \* processPredictions: the returned array
    themedOpps,     \* part_000: the bettingOpps array derived at render
    coverAnalysis,  \* calculatePerformance: the outcome rows argument
    currentOpps,    \* calculatePerformance: the opportunity count argument
    metrics,        \* calculatePerformance: the returned PerformanceMetrics
    pc,             \* position of the pure-function call
    loading,        \* useState(true)              page.tsx:26
    error,          \* useState<string|null>(null) page.tsx:27
    opportunities,  \* useState([])                page.tsx:28
    performance,    \* useState({0,0,0,0,0})       page.tsx:29
    reqs,           \* the fetchBettingData invocations, by start order
    last,           \* the invocation that settled last and what it received
    predictionsResponse, \* GET: what values.get returned for Predictions!A:Z
    coverResponse,  \* GET: what values.get returned for Cover Analysis!A:Z
    response,       \* GET: the NextResponse returned
    routePc,        \* GET: position in the handler
    dashboardData,  \* useState<DashboardData | null>(null)  part_000:29 (`data`)
    minEdgeState    \* useState(2.0)                          part_000:31 (`minEdge`)

vars == <<predictions, bettingOpps, themedOpps, coverAnalysis, currentOpps, metrics, pc,
          loading, error, opportunities, performance, reqs, last,
          predictionsResponse, coverResponse, response, routePc,
          dashboardData, minEdgeState>>

pureVars == <<predictions, bettingOpps, themedOpps, coverAnalysis, currentOpps,
             metrics, pc>>
pageVars == <<loading, error, opportunities, performance, reqs, last>>
routeVars == <<predictionsResponse, coverResponse, response, routePc>>
themedVars == <<dashboardData, minEdgeState>>

(***************************************************************************)
(* JavaScript values                                                       *)
(***************************************************************************)

\* The value of a property that the row object does not have.
Undefined == <<"undefined">>

\* An array-valued property that the object does not have (data.predictions
\* or data.coverAnalysis of a payload without that key).
UndefinedArray == <<[undefined |-> TRUE]>>

\* String(x) of a cell value, as a template literal `${x}` computes it.
StringOf(x) ==
    IF x = Undefined THEN <<"u","n","d","e","f","i","n","e","d">> ELSE x

\* Truthiness of a cell value: undefined and '' are falsy.
Truthy(x) == x # Undefined /\ x # <<>>

\* `x || ''`
OrEmpty(x) == IF Truthy(x) THEN x ELSE <<>>

Digits == <<"0","1","2","3","4","5","6","7","8","9">>

IsDigit(c) == \E d \in 1..10 : Digits[d] = c

DigitVal(c) == (CHOOSE d \in 1..10 : Digits[d] = c) - 1

\* Number of consecutive decimal digits of s starting at index i.
RECURSIVE DigitRun(_, _)
DigitRun(s, i) ==
    IF i <= Len(s) /\ IsDigit(s[i]) THEN 1 + DigitRun(s, i + 1) ELSE 0

\* Value of a run of decimal digits (0 for the empty run).
RECURSIVE DigitsVal(_)
DigitsVal(s) ==
    IF s = <<>> THEN 0
    ELSE 10 * DigitsVal(SubSeq(s, 1, Len(s) - 1)) + DigitVal(s[Len(s)])

\* Leading white space is skipped by parseFloat.
RECURSIVE TrimStart(_)
TrimStart(s) ==
    IF s # <<>> /\ Head(s) = " " THEN TrimStart(Tail(s)) ELSE s

NaN == [nan |-> TRUE, v |-> 0]

Num(v) == [nan |-> FALSE, v |-> v]

\* parseFloat(x): the longest prefix  [ws] [+|-] digits [. digits]  of
\* String(x), in tenths; NaN when that prefix holds no digit.
parseFloat(x) ==
    LET t      == TrimStart(StringOf(x))
        signed == t # <<>> /\ Head(t) \in {"-", "+"}
        neg    == t # <<>> /\ Head(t) = "-"
        p      == IF signed THEN 2 ELSE 1
        n      == DigitRun(t, p)
        q      == p + n
        hasDot == q <= Len(t) /\ t[q] = "."
        m      == IF hasDot THEN DigitRun(t, q + 1) ELSE 0
        whole  == DigitsVal(SubSeq(t, p, q - 1))
        frac   == IF m > 0 THEN DigitVal(t[q + 1]) ELSE 0
        mag    == 10 * whole + frac
    IN  IF n + m = 0 THEN NaN
        ELSE Num(IF neg THEN 0 - mag ELSE mag)

isNaN(n) == n.nan

\* `n || 0` for a number n: NaN and 0 are falsy.
OrZero(n) == IF n.nan THEN 0 ELSE n.v

RECURSIVE NatStringOf(_)
NatStringOf(k) ==
    IF k < 10 THEN <<Digits[k + 1]>>
    ELSE NatStringOf(k \div 10) \o <<Digits[(k % 10) + 1]>>

\* String(v) of a number held in tenths, as `${v}` computes it.
NumStringOf(v) ==
    LET a == IF v < 0 THEN 0 - v ELSE v
    IN  (IF v < 0 THEN <<"-">> ELSE <<>>)
        \o NatStringOf(a \div 10)
        \o (IF a % 10 = 0 THEN <<>> ELSE <<".", Digits[(a % 10) + 1]>>)

(***************************************************************************)
(* processPredictions (page.tsx:69-134)                                    *)
(***************************************************************************)

NA == <<"N","/","A">>

NoLineAvailable ==
    <<"N","o"," ","L","i","n","e"," ","A","v","a","i","l","a","b","l","e">>

BelowThreshold ==
    <<"B","e","l","o","w"," ","t","h","r","e","s","h","o","l","d">>

Take == <<"T","a","k","e"," ">>

\* LineUsable without the test against 'N/A'.
LineUsable_NoNACheck(pred) ==
    /\ Truthy(pred.Line)
    /\ pred.Line # NoLineAvailable

\* page.tsx:75-77 and part_000:69, the Line part of the filter.
LineUsable(pred) ==
    /\ Truthy(pred.Line)
    /\ pred.Line # NA
    /\ pred.Line # NoLineAvailable

\* IncludePred testing the parsed edge for truthiness (`parseFloat(pred.Edge)`
\* in place of `!isNaN(parseFloat(pred.Edge))`): an edge of 0 is dropped.
IncludePred_DropsZero(pred) ==
    /\ LineUsable(pred)
    /\ Truthy(pred.Edge)
    /\ ~isNaN(parseFloat(pred.Edge))
    /\ parseFloat(pred.Edge).v # 0

\* IncludePred also requiring the Line to parse as a number.
IncludePred_NumericLineOnly(pred) ==
    /\ LineUsable(pred)
    /\ ~isNaN(parseFloat(pred.Line))
    /\ Truthy(pred.Edge)
    /\ ~isNaN(parseFloat(pred.Edge))

\* page.tsx:73-80, the whole filter callback.
IncludePred(pred) ==
    /\ LineUsable(pred)
    /\ Truthy(pred.Edge)
    /\ ~isNaN(parseFloat(pred.Edge))

\* page.tsx:88, the literal 2.0 (in tenths).
Threshold == 20

\* BetRec with the threshold test written `edge > 2.0`.
BetRec_StrictThreshold(pred, edge, ourLine, vegasLine) ==
    IF edge > Threshold
    THEN IF ourLine > vegasLine
         THEN Take \o StringOf(pred.Favorite) \o <<" ", "-">> \o NumStringOf(vegasLine)
         ELSE Take \o StringOf(pred.Underdog) \o <<" ", "+">> \o NumStringOf(vegasLine)
    ELSE BelowThreshold

\* BetRec with the side test written `ourLine >= vegasLine`.
BetRec_TieToFavorite(pred, edge, ourLine, vegasLine) ==
    IF edge >= Threshold
    THEN IF ourLine >= vegasLine
         THEN Take \o StringOf(pred.Favorite) \o <<" ", "-">> \o NumStringOf(vegasLine)
         ELSE Take \o StringOf(pred.Underdog) \o <<" ", "+">> \o NumStringOf(vegasLine)
    ELSE BelowThreshold

\* page.tsx:86-96
BetRec(pred, edge, ourLine, vegasLine) ==
    IF edge >= Threshold
    THEN IF ourLine > vegasLine
         THEN Take \o StringOf(pred.Favorite) \o <<" ", "-">> \o NumStringOf(vegasLine)
         ELSE Take \o StringOf(pred.Underdog) \o <<" ", "+">> \o NumStringOf(vegasLine)
    ELSE BelowThreshold

\* EdgeBandPage with every breakpoint test written `>`.
EdgeBandPage_Strict(edge) ==
    IF edge > 120 THEN <<"12+", "Elite (58.5%)">>
    ELSE IF edge > 90 THEN <<"9-12", "Strong (70.6%)">>
    ELSE IF edge > 70 THEN <<"7-9", "Good (66.7%)">>
    ELSE IF edge > 50 THEN <<"5-7", "Weak (46.2%)">>
    ELSE IF edge > 20 THEN <<"2-5", "Fade (35.7%)">>
    ELSE <<"0-2", "Fade (46.7%)">>

\* page.tsx:98-119, the top-down chain; [1] is edgeBand, [2] is confidence.
EdgeBandPage(edge) ==
    IF edge >= 120 THEN <<"12+", "Elite (58.5%)">>
    ELSE IF edge >= 90 THEN <<"9-12", "Strong (70.6%)">>
    ELSE IF edge >= 70 THEN <<"7-9", "Good (66.7%)">>
    ELSE IF edge >= 50 THEN <<"5-7", "Weak (46.2%)">>
    ELSE IF edge >= 20 THEN <<"2-5", "Fade (35.7%)">>
    ELSE <<"0-2", "Fade (46.7%)">>

\* The bottom-up chain with inclusive upper limits.
EdgeBandThemed_Inclusive(edge) ==
    IF edge <= 20 THEN <<"0-2", "Avoid (40%)">>
    ELSE IF edge <= 50 THEN <<"2-5", "Weak (37%)">>
    ELSE IF edge <= 70 THEN <<"5-7", "Good (75%)">>
    ELSE IF edge <= 90 THEN <<"7-9", "Excellent (100%)">>
    ELSE IF edge <= 120 THEN <<"9-12", "Strong (60%)">>
    ELSE <<"12+", "Elite (64%)">>

\* part_000:729, the conditional chain of the band groups.
EdgeBandTernary(edge) ==
    IF edge < 20 THEN "0-2"
    ELSE IF edge < 50 THEN "2-5"
    ELSE IF edge < 70 THEN "5-7"
    ELSE IF edge < 90 THEN "7-9"
    ELSE IF edge < 120 THEN "9-12"
    ELSE "12+"

\* part_000:88-102, the bottom-up chain of the themed variant.
EdgeBandThemed(edge) ==
    IF edge < 20 THEN <<"0-2", "Avoid (40%)">>
    ELSE IF edge < 50 THEN <<"2-5", "Weak (37%)">>
    ELSE IF edge < 70 THEN <<"5-7", "Good (75%)">>
    ELSE IF edge < 90 THEN <<"7-9", "Excellent (100%)">>
    ELSE IF edge < 120 THEN <<"9-12", "Strong (60%)">>
    ELSE <<"12+", "Elite (64%)">>

\* page.tsx:81-132, the map callback.
MapPred(pred) ==
    LET edge      == OrZero(parseFloat(pred.Edge))
        ourLine   == OrZero(parseFloat(pred.PredictedDifference))
        vegasLine == OrZero(parseFloat(pred.Line))
        cls       == EdgeBandPage(edge)
    IN  [matchup           |-> OrEmpty(pred.Matchup),
         favorite          |-> OrEmpty(pred.Favorite),
         underdog          |-> OrEmpty(pred.Underdog),
         ourLine           |-> ourLine,
         vegasLine         |-> vegasLine,
         edge              |-> edge,
         betRecommendation |-> BetRec(pred, edge, ourLine, vegasLine),
         confidence        |-> cls[2],
         edgeBand          |-> cls[1]]

\* Array.prototype.map with the callback of page.tsx:81.
MapPreds(s) == [i \in 1..Len(s) |-> MapPred(s[i])]

\* compareFn with the operands swapped (ascending order).
compareFn_Ascending(a, b) == a.edge - b.edge

\* page.tsx:133, the comparator: negative when a sorts before b.
compareFn(a, b) == b.edge - a.edge

\* Insert placing x before the elements it ties with.
RECURSIVE Insert_BeforeTies(_, _)
Insert_BeforeTies(s, x) ==
    IF s = <<>> THEN <<x>>
    ELSE IF x.edge - Head(s).edge < 0
         THEN <<Head(s)>> \o Insert_BeforeTies(Tail(s), x)
         ELSE <<x>> \o s

\* One step of the stable sort: x goes after every element that does not
\* sort after it.
RECURSIVE Insert(_, _)
Insert(s, x) ==
    IF s = <<>> THEN <<x>>
    ELSE IF compareFn(Head(s), x) <= 0
         THEN <<Head(s)>> \o Insert(Tail(s), x)
         ELSE <<x>> \o s

\* Array.prototype.sort(compareFn): stable (ECMAScript 2019, 23.1.3.30).
RECURSIVE Sort(_)
Sort(s) ==
    IF s = <<>> THEN <<>>
    ELSE Insert(Sort(SubSeq(s, 1, Len(s) - 1)), s[Len(s)])

\* page.tsx:69-134
processPredictions(preds) ==
    IF preds = UndefinedArray \/ Len(preds) = 0 THEN <<>>
    ELSE Sort(MapPreds(SelectSeq(preds, IncludePred)))

(***************************************************************************)
(* The band groups of page.tsx (page.tsx:200-208, 330-333)                 *)
(***************************************************************************)

\* page.tsx:201-208, one filter of the list per band.
groupedOpportunities(opps) ==
    [band \in {"12+", "9-12", "7-9", "5-7", "2-5", "0-2"} |->
        LET InBandGroup(opp) == opp.edgeBand = band IN SelectSeq(opps, InBandGroup)]

\* The band sections rendered from the smallest edges up.
BandOrder_Ascending == <<"0-2", "2-5", "5-7", "7-9", "9-12", "12+">>

\* page.tsx:330, the order in which the band sections are rendered.
BandOrder == <<"12+", "9-12", "7-9", "5-7", "2-5", "0-2">>

\* page.tsx:330-333, 375: the cards of all sections from top to bottom.
RECURSIVE CardsFrom(_, _)
CardsFrom(opps, k) ==
    IF k > Len(BandOrder) THEN <<>>
    ELSE groupedOpportunities(opps)[BandOrder[k]] \o CardsFrom(opps, k + 1)

Cards(opps) == CardsFrom(opps, 1)

(***************************************************************************)

(* The card of an opportunity (page.tsx:375-389)                           *)
(***************************************************************************)

\* page.tsx:381 (and 335), the edge from which a card shows the bet, in tenths.
CardThreshold == 25

NoBettingValue == "No betting value (edge too small)"

\* page.tsx:381-389, the line under the matchup: the recommendation as
\* characters, or the fixed text.
CardLine(opp) ==
    IF opp.edge >= CardThreshold
    THEN [shows |-> "recommendation", text |-> opp.betRecommendation]
    ELSE [shows |-> "noValue", text |-> NoBettingValue]

(***************************************************************************)

(* bettingOpps of the themed dashboard (part_000:67-116)                   *)
(***************************************************************************)

\* part_000:31 useState(2.0), part_000:413 const minEdge = 2.0 (in tenths).
DefaultMinEdge == 20

\* part_000:75-86, [1] is betRec, [2] is betType.
ThemedBetRec(pred, edge, predDiff, vegasLine, minEdge) ==
    IF edge >= minEdge
    THEN IF predDiff > vegasLine
         THEN <<Take \o StringOf(pred.Favorite) \o <<" ", "-">> \o NumStringOf(vegasLine),
                "Favorite">>
         ELSE <<Take \o StringOf(pred.Underdog) \o <<" ", "+">> \o NumStringOf(vegasLine),
                "Underdog">>
    ELSE <<<<>>, "">>

\* part_000:70-114, the map callback ({...pred, betRec, ...}).
ThemedMapPred(pred, minEdge) ==
    LET edge      == OrZero(parseFloat(pred.Edge))
        predDiff  == OrZero(parseFloat(pred.PredictedDifference))
        vegasLine == OrZero(parseFloat(pred.Line))
        rec       == ThemedBetRec(pred, edge, predDiff, vegasLine, minEdge)
        cls       == EdgeBandThemed(edge)
    IN  [Matchup             |-> pred.Matchup,
         Favorite            |-> pred.Favorite,
         Underdog            |-> pred.Underdog,
         PredictedDifference |-> pred.PredictedDifference,
         Line                |-> pred.Line,
         Edge                |-> pred.Edge,
         betRec              |-> rec[1],
         betType             |-> rec[2],
         edge                |-> edge,
         confidence          |-> cls[2],
         vegasLine           |-> vegasLine,
         edgeBand            |-> cls[1]]

\* bettingOpps without the filter on minEdge after the map.
ThemedBettingOpps_NoEdgeFilter(preds, minEdge) ==
    LET kept   == SelectSeq(preds, LineUsable)
        mapped == [i \in 1..Len(kept) |-> ThemedMapPred(kept[i], minEdge)]
    IN  Sort(mapped)

\* part_000:68-116
ThemedBettingOpps(preds, minEdge) ==
    LET kept   == SelectSeq(preds, LineUsable)
        mapped == [i \in 1..Len(kept) |-> ThemedMapPred(kept[i], minEdge)]
        AtLeastMinEdge(bet) == bet.edge >= minEdge
    IN  Sort(SelectSeq(mapped, AtLeastMinEdge))

(***************************************************************************)
(* calculatePerformance (page.tsx:136-162)                                 *)
(***************************************************************************)

RECURSIVE GCD(_, _)
GCD(a, b) == IF b = 0 THEN a ELSE GCD(b, a % b)

\* The exact quotient n/d of two naturals (d > 0), in lowest terms.  The
\* program holds it as an IEEE double; the model keeps it unrounded.
Ratio(n, d) == LET g == GCD(n, d) IN [n |-> n \div g, d |-> d \div g]

\* IsValidBet comparing the Result without regard to case.
IsValidBet_AnyCase(bet) == bet.Result \in {"WIN", "LOSS", "win", "loss"}

\* page.tsx:147-149, the filter callback.
IsValidBet(bet) == bet.Result = "WIN" \/ bet.Result = "LOSS"

IsWin(bet) == bet.Result = "WIN"

IsLoss(bet) == bet.Result = "LOSS"

\* WinRate without the factor 100.
WinRate_Fraction(wins, total) ==
    IF total > 0 THEN Ratio(wins, total) ELSE Ratio(0, 1)

\* page.tsx:153  validBets.length > 0 ? (wins / validBets.length) * 100 : 0
WinRate(wins, total) ==
    IF total > 0
    THEN LET q == Ratio(wins, total) IN Ratio(q.n * 100, q.d)
    ELSE Ratio(0, 1)

\* calculatePerformance whose early return reports no opportunities.
calculatePerformance_DropsCount(cover, opps) ==
    IF cover = UndefinedArray \/ Len(cover) = 0
    THEN [totalBets |-> 0, wins |-> 0, losses |-> 0, winRate |-> Ratio(0, 1),
          currentWeekOpportunities |-> 0]
    ELSE LET validBets == SelectSeq(cover, IsValidBet)
             wins      == Len(SelectSeq(validBets, IsWin))
             losses    == Len(SelectSeq(validBets, IsLoss))
         IN  [totalBets |-> Len(validBets), wins |-> wins, losses |-> losses,
              winRate |-> WinRate(wins, Len(validBets)),
              currentWeekOpportunities |-> opps]

\* calculatePerformance dividing by the number of bets on the early return too.
calculatePerformance_DividesOnEmpty(cover, opps) ==
    IF cover = UndefinedArray \/ Len(cover) = 0
    THEN [totalBets |-> 0, wins |-> 0, losses |-> 0, winRate |-> [n |-> 0, d |-> 0],
          currentWeekOpportunities |-> opps]
    ELSE LET validBets == SelectSeq(cover, IsValidBet)
             wins      == Len(SelectSeq(validBets, IsWin))
             losses    == Len(SelectSeq(validBets, IsLoss))
         IN  [totalBets |-> Len(validBets), wins |-> wins, losses |-> losses,
              winRate |-> WinRate(wins, Len(validBets)),
              currentWeekOpportunities |-> opps]

\* page.tsx:136-162
calculatePerformance(cover, opps) ==
    IF cover = UndefinedArray \/ Len(cover) = 0
    THEN [totalBets |-> 0, wins |-> 0, losses |-> 0, winRate |-> Ratio(0, 1),
          currentWeekOpportunities |-> opps]
    ELSE LET validBets == SelectSeq(cover, IsValidBet)
             wins      == Len(SelectSeq(validBets, IsWin))
             losses    == Len(SelectSeq(validBets, IsLoss))
         IN  [totalBets |-> Len(validBets), wins |-> wins, losses |-> losses,
              winRate |-> WinRate(wins, Len(validBets)),
              currentWeekOpportunities |-> opps]

\* part_000:119-124, the aggregate computed at render by the themed variant.
ThemedPerformance(cover) ==
    LET validCoverGames == SelectSeq(cover, IsValidBet)
        totalBets       == Len(validCoverGames)
        wins            == Len(SelectSeq(validCoverGames, IsWin))
    IN  [totalBets |-> totalBets, wins |-> wins,
         winRate |-> WinRate(wins, totalBets)]

(***************************************************************************)
(* Inputs of the pure functions                                            *)
(***************************************************************************)

\* Longest prediction array whose rows range over every cell text below.
MaxFieldRows == 1

\* Longest prediction array used to exercise the ordering of the result.
MaxSortRows == 3

\* Largest edge (in tenths) of the dense sweep over the band breakpoints.
MaxEdge == 125

\* Longest outcome array.
MaxCoverRows == 4

\* Largest opportunity count handed to calculatePerformance.
MaxOpps == 2

\* Sequences over S of length 0..n.
SeqsUpTo(S, n) == UNION {[1..k -> S] : k \in 0..n}

LineTexts ==
    {Undefined, <<>>, NA, NoLineAvailable, <<"3">>, <<"-","3",".","5">>,
     <<"0">>, <<"T","B","D">>}

EdgeTexts ==
    {<<>>, <<"x">>, <<"0">>, <<"1",".","9">>, <<"2">>, <<"1","2">>, <<"-","4">>}

DiffTexts == {<<"7">>, <<"-","5">>, <<"x">>}

\* The Matchup cell of the i-th sheet row: every game has its own label.
Game(i) == <<"G", Digits[i + 1]>>

Row(i, diff, line, edgeText) ==
    [Matchup             |-> Game(i),
     Favorite            |-> <<"A", Digits[i + 1]>>,
     Underdog            |-> <<"B", Digits[i + 1]>>,
     PredictedDifference |-> diff,
     Line                |-> line,
     Edge                |-> edgeText]

\* Arrays of rows i |-> Row(i, ...) whose cells range over the given texts.
RowArrays(n, diffs, lines, edges) ==
    UNION {
      {[i \in 1..k |-> Row(i, c[i][1], c[i][2], c[i][3])] :
          c \in [1..k -> diffs \X lines \X edges]} : k \in 0..n}

\* p is an array of rows whose cells range over every cell text (short).
IsFieldCase(p) ==
    \E k \in 0..MaxFieldRows :
        \E c \in [1..k -> DiffTexts \X LineTexts \X EdgeTexts] :
            p = [i \in 1..k |-> Row(i, c[i][1], c[i][2], c[i][3])]

\* p is an array over few cell texts (longer, with ties).
IsSortCase(p) ==
    p \in RowArrays(MaxSortRows, {<<"7">>}, {<<"3">>, NA},
                    {<<"1",".","9">>, <<"2">>, <<"1","2">>})

\* p is one row with an edge among 0.0, 0.1, ... MaxEdge/10.
IsEdgeCase(p) ==
    \E e \in 0..MaxEdge : p = <<Row(1, <<"7">>, <<"3">>, NumStringOf(e))>>

\* The arguments processPredictions is called with.
IsPredictionInput(p) ==
    \/ p = UndefinedArray
    \/ IsFieldCase(p)
    \/ IsSortCase(p)
    \/ IsEdgeCase(p)

Results == {"WIN", "LOSS", "PENDING", "PUSH", "win", ""}

CoverInputs ==
    {UndefinedArray} \cup SeqsUpTo([Result : Results], MaxCoverRows)

(***************************************************************************)
(* The pure functions as one-call state machines                           *)
(***************************************************************************)

NoResult == <<>>

InitialPerformance ==
    [totalBets |-> 0, wins |-> 0, losses |-> 0, winRate |-> Ratio(0, 1),
     currentWeekOpportunities |-> 0]

\* The JavaScript null held by the error state.
Null == "null"

NoData == [predictions |-> UndefinedArray, coverAnalysis |-> UndefinedArray]

NoneSettled == [id |-> 0, kind |-> "none", outcome |-> "none", data |-> NoData]

\* A values.get result that has not arrived.
NoSheetResponse == [pending |-> TRUE]

\* A values.get promise that rejected.
Rejected == [rejected |-> TRUE]

\* No NextResponse returned yet.
NoResponse == [status |-> 0, body |-> [pending |-> TRUE]]

\* route.ts:13, GET has been entered and nothing has run.
RouteCalled ==
    /\ predictionsResponse = NoSheetResponse
    /\ coverResponse = NoSheetResponse
    /\ response = NoResponse
    /\ routePc = "credentials"

\* The JavaScript null held by the themed dashboard's data state.
NullData == [null |-> TRUE]

\* part_000:29-31, the useState initial values of the themed dashboard.
ThemedConstructed ==
    /\ dashboardData = NullData
    /\ minEdgeState = DefaultMinEdge

\* page.tsx:26-35, the useState initial values; nothing fetched yet.
PageConstructed ==
    /\ loading = TRUE
    /\ error = Null
    /\ opportunities = <<>>
    /\ performance = InitialPerformance
    /\ reqs = <<>>
    /\ last = NoneSettled

InitOpps ==
    /\ IsPredictionInput(predictions)
    /\ bettingOpps = NoResult
    /\ themedOpps = NoResult
    /\ coverAnalysis = <<>>
    /\ currentOpps = 0
    /\ metrics = InitialPerformance
    /\ pc = "call"
    /\ PageConstructed
    /\ RouteCalled
    /\ ThemedConstructed

\* bettingOpps = processPredictions(data.predictions)   page.tsx:55
ProcessPredictions ==
    /\ pc = "call"
    /\ bettingOpps' = processPredictions(predictions)
    /\ pc' = "page"
    /\ UNCHANGED <<predictions, themedOpps, coverAnalysis, currentOpps, metrics>>
    /\ UNCHANGED <<pageVars, routeVars, themedVars>>

\* const bettingOpps = data.predictions.filter(...)...   part_000:68
ThemedRender ==
    /\ pc = "call"
    /\ IF predictions = UndefinedArray
       THEN pc' = "threw" /\ UNCHANGED themedOpps  \* TypeError: .filter of undefined
       ELSE /\ themedOpps' = ThemedBettingOpps(predictions, DefaultMinEdge)
            /\ pc' = "themed"
    /\ UNCHANGED <<predictions, bettingOpps, coverAnalysis, currentOpps, metrics>>
    /\ UNCHANGED <<pageVars, routeVars, themedVars>>

NextOpps == ProcessPredictions \/ ThemedRender

SpecOpps == InitOpps /\ [][NextOpps]_vars

InitPerf ==
    /\ predictions = <<>>
    /\ bettingOpps = NoResult
    /\ themedOpps = NoResult
    /\ coverAnalysis \in CoverInputs
    /\ currentOpps \in 0..MaxOpps
    /\ metrics = InitialPerformance
    /\ pc = "call"
    /\ PageConstructed
    /\ RouteCalled
    /\ ThemedConstructed

\* metrics = calculatePerformance(data.coverAnalysis, bettingOpps.length)
CalculatePerformance ==
    /\ pc = "call"
    /\ metrics' = calculatePerformance(coverAnalysis, currentOpps)
    /\ pc' = "perf"
    /\ UNCHANGED <<predictions, bettingOpps, themedOpps, coverAnalysis, currentOpps>>
    /\ UNCHANGED <<pageVars, routeVars, themedVars>>

\* part_000:119-124 evaluated during render
ThemedStats ==
    /\ pc = "call"
    /\ IF coverAnalysis = UndefinedArray
       THEN pc' = "threw" /\ UNCHANGED metrics     \* TypeError: .filter of undefined
       ELSE /\ metrics' = ThemedPerformance(coverAnalysis)
            /\ pc' = "themedPerf"
    /\ UNCHANGED <<predictions, bettingOpps, themedOpps, coverAnalysis, currentOpps>>
    /\ UNCHANGED <<pageVars, routeVars, themedVars>>

NextPerf == CalculatePerformance \/ ThemedStats

SpecPerf == InitPerf /\ [][NextPerf]_vars

(***************************************************************************)
(* Claims about processPredictions and the band chains (SpecOpps)          *)
(***************************************************************************)

Bands == {"12+", "9-12", "7-9", "5-7", "2-5", "0-2"}

\* The band intervals as the specification states them (edge in tenths).
InBand(e, b) ==
    \/ b = "12+"  /\ e >= 120
    \/ b = "9-12" /\ 90 <= e /\ e < 120
    \/ b = "7-9"  /\ 70 <= e /\ e < 90
    \/ b = "5-7"  /\ 50 <= e /\ e < 70
    \/ b = "2-5"  /\ 20 <= e /\ e < 50
    \/ b = "0-2"  /\ e < 20

\* The records the call at hand returned, as <<edge, edgeBand>> pairs.
Classified ==
    IF pc = "page"
    THEN {<<bettingOpps[i].edge, bettingOpps[i].edgeBand>> : i \in DOMAIN bettingOpps}
    ELSE IF pc = "themed"
    THEN {<<themedOpps[i].edge, themedOpps[i].edgeBand>> : i \in DOMAIN themedOpps}
    ELSE {}

\* C1: every emitted record with edge >= 0 carries exactly one of the six
\* bands, the one whose half-open interval holds its edge; a breakpoint
\* belongs to the upper band.  Both chains (page.tsx, part_000) are covered.
C1_BandPartition ==
    \A c \in Classified :
        c[1] >= 0 =>
            /\ c[2] \in Bands
            /\ InBand(c[1], c[2])
            /\ \A b \in Bands : InBand(c[1], b) => b = c[2]

\* C1 witness: the breakpoint 12.0 was classified by the page chain.
C1_Witness ==
    /\ pc = "page"
    /\ Len(bettingOpps) = 1
    /\ bettingOpps[1].edge = 120
    /\ bettingOpps[1].edgeBand = "12+"

\* C2: a record returned by processPredictions recommends 'Below threshold'
\* exactly when its edge is below 2.0.
C2_BelowThresholdIff ==
    pc = "page" =>
        \A i \in DOMAIN bettingOpps :
            (bettingOpps[i].betRecommendation = BelowThreshold)
                <=> (bettingOpps[i].edge < 20)

\* C2 witness: one call returned a record at exactly 2.0 with a bet and a
\* record at 1.9 without one.
C2_Witness ==
    /\ pc = "page"
    /\ \E i, j \in DOMAIN bettingOpps :
          /\ bettingOpps[i].edge = 20
          /\ bettingOpps[i].betRecommendation # BelowThreshold
          /\ bettingOpps[j].edge = 19
          /\ bettingOpps[j].betRecommendation = BelowThreshold

\* s ends with the text t
EndsWith(s, t) ==
    Len(t) <= Len(s) /\ SubSeq(s, Len(s) - Len(t) + 1, Len(s)) = t

\* s contains the text t
Contains(s, t) ==
    \E k \in 0..(Len(s) - Len(t)) : SubSeq(s, k + 1, k + Len(t)) = t

\* The recommendation names `team` and ends with `sign` before the line value.
Recommends(rec, team, sign, line) ==
    /\ team # <<>>
    /\ Contains(rec, team)
    /\ EndsWith(rec, <<sign>> \o NumStringOf(line))

\* C3: at or above the threshold, a predicted differential strictly above
\* the Vegas line recommends the favorite with a minus sign before the line
\* value; otherwise the underdog with a plus sign before the line value.
C3_RecommendationSide ==
    /\ pc = "page" =>
          \A i \in DOMAIN bettingOpps :
              LET o == bettingOpps[i] IN
              o.edge >= 20 =>
                  IF o.ourLine > o.vegasLine
                  THEN Recommends(o.betRecommendation, o.favorite, "-", o.vegasLine)
                  ELSE Recommends(o.betRecommendation, o.underdog, "+", o.vegasLine)
    /\ pc = "themed" =>
          \A i \in DOMAIN themedOpps :
              LET o == themedOpps[i] IN
              IF OrZero(parseFloat(o.PredictedDifference)) > o.vegasLine
              THEN Recommends(o.betRec, o.Favorite, "-", o.vegasLine)
              ELSE Recommends(o.betRec, o.Underdog, "+", o.vegasLine)

\* C3 witness: differential equal to a zero line, and a negative line.
C3_Witness ==
    /\ pc = "page"
    /\ \E i \in DOMAIN bettingOpps :
          /\ bettingOpps[i].edge >= 20
          /\ bettingOpps[i].vegasLine = 0
          /\ bettingOpps[i].ourLine = 0
          /\ bettingOpps[i].betRecommendation
                = Take \o bettingOpps[i].underdog \o <<" ", "+", "0">>

\* The injective maps of 1..n onto itself.
Perms(n) == {f \in [1..n -> 1..n] : \A a, b \in 1..n : f[a] = f[b] => a = b}

EdgesOf(opps) == [i \in 1..Len(opps) |-> opps[i].edge]

\* C4: the returned list is in non-increasing edge order, and every
\* permutation of the same rows returns the same sequence of edges.
C4_SortedDescending ==
    pc = "page" =>
        /\ \A i, j \in DOMAIN bettingOpps :
              i < j => bettingOpps[i].edge >= bettingOpps[j].edge
        /\ predictions # UndefinedArray =>
              \A f \in Perms(Len(predictions)) :
                  EdgesOf(processPredictions([i \in 1..Len(predictions) |-> predictions[f[i]]]))
                      = EdgesOf(bettingOpps)

\* C4 witness: three rows came back, the last input row first.
C4_Witness ==
    /\ pc = "page"
    /\ Len(bettingOpps) = 3
    /\ bettingOpps[1].matchup = Game(3)
    /\ bettingOpps[1].edge > bettingOpps[2].edge
    /\ bettingOpps[2].edge > bettingOpps[3].edge

\* Index of the input row a returned record was built from.
RowOf(matchup) == CHOOSE k \in DOMAIN predictions : predictions[k].Matchup = matchup

\* C5: two returned records with equal edge keep the relative order of
\* their input rows.
C5_StableSort ==
    pc = "page" =>
        \A i, j \in DOMAIN bettingOpps :
            (i < j /\ bettingOpps[i].edge = bettingOpps[j].edge)
                => RowOf(bettingOpps[i].matchup) < RowOf(bettingOpps[j].matchup)

\* C5 witness: a tie of the first two rows, moved behind the third row.
C5_Witness ==
    /\ pc = "page"
    /\ Len(bettingOpps) = 3
    /\ bettingOpps[1].matchup = Game(3)
    /\ bettingOpps[2].matchup = Game(1)
    /\ bettingOpps[3].matchup = Game(2)
    /\ bettingOpps[2].edge = bettingOpps[3].edge

\* The Line cell is missing, empty, 'N/A' or 'No Line Available'.
LineUnavailable(pred) ==
    pred.Line \in {Undefined, <<>>, NA, NoLineAvailable}

\* C6: a row whose Line is missing, empty, 'N/A' or 'No Line Available'
\* has no record in the returned list, whatever its Edge.
C6_NoLineExcluded ==
    (pc \in {"page", "themed"} /\ predictions # UndefinedArray) =>
        \A k \in DOMAIN predictions :
            LineUnavailable(predictions[k]) =>
                /\ \A i \in DOMAIN bettingOpps :
                      bettingOpps[i].matchup # predictions[k].Matchup
                /\ \A i \in DOMAIN themedOpps :
                      themedOpps[i].Matchup # predictions[k].Matchup

\* C6 witness: a row with edge 12 and Line 'N/A' was dropped while another
\* row of the same call was returned.
C6_Witness ==
    /\ pc = "page"
    /\ Len(predictions) = 2
    /\ predictions[1].Line = NA
    /\ predictions[1].Edge = <<"1","2">>
    /\ Len(bettingOpps) = 1
    /\ bettingOpps[1].matchup = Game(2)

(***************************************************************************)
(* Claims about calculatePerformance (SpecPerf)                            *)
(***************************************************************************)

\* Number of rows of the outcome array whose Result is exactly r.
CountResult(r) ==
    IF coverAnalysis = UndefinedArray THEN 0
    ELSE Cardinality({i \in DOMAIN coverAnalysis : coverAnalysis[i].Result = r})

\* C7: wins counts the rows whose Result is exactly 'WIN', losses those
\* whose Result is exactly 'LOSS', totalBets is their sum; no other row
\* contributes.
C7_OnlyWinLossCounted ==
    /\ pc = "perf" =>
          /\ metrics.wins = CountResult("WIN")
          /\ metrics.losses = CountResult("LOSS")
          /\ metrics.totalBets = metrics.wins + metrics.losses
    /\ pc = "themedPerf" =>
          /\ metrics.wins = CountResult("WIN")
          /\ metrics.totalBets = metrics.wins + CountResult("LOSS")

\* C7 witness: rows with 'win', 'PENDING' and '' were passed and ignored.
C7_Witness ==
    /\ pc = "perf"
    /\ coverAnalysis = <<[Result |-> "WIN"], [Result |-> "win"],
                         [Result |-> "PENDING"], [Result |-> ""]>>
    /\ metrics.totalBets = 1
    /\ metrics.wins = 1
    /\ metrics.losses = 0

MaxFetches == 3

\* Longest predictions and coverAnalysis arrays of a response payload.
MaxPayloadRows == 1

PayloadPredictions ==
    {UndefinedArray}
        \cup RowArrays(MaxPayloadRows, {<<"7">>}, {<<"3">>},
                       {<<"1",".","9">>, <<"1","2">>})

PayloadCover ==
    {UndefinedArray}
        \cup SeqsUpTo([Result : {"WIN", "LOSS", "PENDING"}], MaxPayloadRows)

\* The bodies response.json() can resolve to: the route's success object, or
\* an object without the two arrays (route.ts:87-98).
Payloads == [predictions : PayloadPredictions, coverAnalysis : PayloadCover]

\* Messages of the errors the try block can raise.
TransportMessage == "Failed to fetch"                 \* TypeError of fetch()

NotOkMessage == "Failed to fetch betting data"        \* page.tsx:49

BadBodyMessage == "Unexpected token in JSON"          \* SyntaxError of json()

NullBodyMessage == "Cannot read properties of null"   \* TypeError at page.tsx:55

\* `if (error)` / `if (loading)`: page.tsx:226-252
View ==
    IF loading THEN "loading"
    ELSE IF error # Null /\ error # "" THEN "error"
    ELSE "dashboard"

\* The Retry button exists only in the error view (page.tsx:243-248).
RetryOffered == View = "error"

\* A Refresh button that is also rendered in the loading view.
RefreshOffered_WhileLoading == View # "error"

\* The Refresh button exists only in the dashboard view (page.tsx:277-282).
RefreshOffered == View = "dashboard"

\* What the page shows of the fetched data (page.tsx:256-438).
Rendered ==
    IF View = "dashboard"
    THEN [opportunities |-> opportunities, performance |-> performance]
    ELSE [opportunities |-> <<>>, performance |-> "none"]

\* fetchBettingData without setError(null).
StartFetch_KeepError(kind) ==
    /\ Len(reqs) < MaxFetches
    /\ loading' = TRUE
    /\ reqs' = Append(reqs, [kind |-> kind, pc |-> "fetch"])
    /\ UNCHANGED <<error, opportunities, performance, last>>
    /\ UNCHANGED <<pureVars, routeVars, themedVars>>

\* page.tsx:42-47, fetchBettingData up to the first await.
StartFetch(kind) ==
    /\ Len(reqs) < MaxFetches
    /\ loading' = TRUE
    /\ error' = Null
    /\ reqs' = Append(reqs, [kind |-> kind, pc |-> "fetch"])
    /\ UNCHANGED <<opportunities, performance, last>>
    /\ UNCHANGED <<pureVars, routeVars, themedVars>>

\* page.tsx:38-40, the mount effect.
Mount == reqs = <<>> /\ StartFetch("mount")

\* page.tsx:277-282, onClick of Refresh.
ClickRefresh == RefreshOffered /\ StartFetch("refresh")

\* page.tsx:243-248, onClick of Retry.
ClickRetry == RetryOffered /\ StartFetch("retry")

\* The invocation returns; what it was is remembered in `last` only.
Settle(i, outcome, data) ==
    /\ reqs' = [reqs EXCEPT ![i] = [kind |-> "settled", pc |-> "done"]]
    /\ last' = [id |-> i, kind |-> reqs[i].kind, outcome |-> outcome, data |-> data]

\* The catch block logging the error without storing it.
Fail_Swallowed(i, outcome, message) ==
    /\ loading' = FALSE
    /\ Settle(i, outcome, NoData)
    /\ UNCHANGED <<error, opportunities, performance>>
    /\ UNCHANGED <<pureVars, routeVars, themedVars>>

\* The catch block also discarding what was displayed.
Fail_ResetsData(i, outcome, message) ==
    /\ error' = message
    /\ loading' = FALSE
    /\ Settle(i, outcome, NoData)
    /\ opportunities' = <<>>
    /\ performance' = InitialPerformance
    /\ UNCHANGED <<pureVars, routeVars, themedVars>>

\* fetchBettingData without the finally block on the failure path.
Fail_StaysLoading(i, outcome, message) ==
    /\ error' = message
    /\ Settle(i, outcome, NoData)
    /\ UNCHANGED <<loading, opportunities, performance>>
    /\ UNCHANGED <<pureVars, routeVars, themedVars>>

\* page.tsx:62-66, catch then finally.
Fail(i, outcome, message) ==
    /\ error' = message
    /\ loading' = FALSE
    /\ Settle(i, outcome, NoData)
    /\ UNCHANGED <<opportunities, performance>>
    /\ UNCHANGED <<pureVars, routeVars, themedVars>>

\* page.tsx:47, fetch() rejects.
FetchRejects(i) ==
    /\ reqs[i].pc = "fetch"
    /\ Fail(i, "rejected", TransportMessage)

\* page.tsx:48-50, a response with !response.ok.
ResponseNotOk(i) ==
    /\ reqs[i].pc = "fetch"
    /\ Fail(i, "notOk", NotOkMessage)

\* page.tsx:47-52, an ok response; response.json() is awaited.
ResponseOk(i) ==
    /\ reqs[i].pc = "fetch"
    /\ reqs' = [reqs EXCEPT ![i].pc = "json"]
    /\ UNCHANGED <<loading, error, opportunities, performance, last>>
    /\ UNCHANGED <<pureVars, routeVars, themedVars>>

\* page.tsx:52, response.json() rejects.
JsonRejects(i) ==
    /\ reqs[i].pc = "json"
    /\ Fail(i, "badBody", BadBodyMessage)

\* page.tsx:55, the body parsed to null: data.predictions raises a TypeError.
JsonResolvesNull(i) ==
    /\ reqs[i].pc = "json"
    /\ Fail(i, "nullBody", NullBodyMessage)

\* The success path merging the new records into the displayed ones.
JsonResolves_Appends(i, data) ==
    /\ reqs[i].pc = "json"
    /\ LET opps == opportunities \o processPredictions(data.predictions) IN
          /\ opportunities' = opps
          /\ performance' = calculatePerformance(data.coverAnalysis, Len(opps))
    /\ loading' = FALSE
    /\ Settle(i, "ok", data)
    /\ UNCHANGED error
    /\ UNCHANGED <<pureVars, routeVars, themedVars>>

\* page.tsx:52-60 and 64-66, the body parsed to `data`.
JsonResolves(i, data) ==
    /\ reqs[i].pc = "json"
    /\ LET opps == processPredictions(data.predictions) IN
          /\ opportunities' = opps
          /\ performance' = calculatePerformance(data.coverAnalysis, Len(opps))
    /\ loading' = FALSE
    /\ Settle(i, "ok", data)
    /\ UNCHANGED error
    /\ UNCHANGED <<pureVars, routeVars, themedVars>>

Init ==
    /\ predictions = <<>>
    /\ bettingOpps = NoResult
    /\ themedOpps = NoResult
    /\ coverAnalysis = <<>>
    /\ currentOpps = 0
    /\ metrics = InitialPerformance
    /\ pc = "page.tsx"
    /\ PageConstructed
    /\ RouteCalled
    /\ ThemedConstructed

Next ==
    \/ Mount
    \/ ClickRefresh
    \/ ClickRetry
    \/ \E i \in DOMAIN reqs : FetchRejects(i)
    \/ \E i \in DOMAIN reqs : ResponseNotOk(i)
    \/ \E i \in DOMAIN reqs : ResponseOk(i)
    \/ \E i \in DOMAIN reqs : JsonRejects(i)
    \/ \E i \in DOMAIN reqs : JsonResolvesNull(i)
    \/ \E i \in DOMAIN reqs : \E data \in Payloads : JsonResolves(i, data)

Spec == Init /\ [][Next]_vars

(***************************************************************************)
(* The page.tsx dashboard with its scheduling: the mount effect runs after *)
(* the first render, and every fetch() and response.json() promise is      *)
(* eventually resolved or rejected.                                        *)
(***************************************************************************)

\* page.tsx:47, the fetch() promise of some invocation settles.
FetchSettles ==
    \E i \in DOMAIN reqs : FetchRejects(i) \/ ResponseNotOk(i) \/ ResponseOk(i)

\* page.tsx:52, the response.json() promise of some invocation rejects.  The
\* step is enabled exactly while such a promise is pending, and every way
\* the promise settles disables it, so weak fairness of it says no more than
\* that no response.json() promise stays pending forever.
SomeJsonRejects == \E i \in DOMAIN reqs : JsonRejects(i)

SpecLive ==
    /\ Init
    /\ [][Next]_vars
    /\ WF_vars(Mount)
    /\ WF_vars(FetchSettles)
    /\ WF_vars(SomeJsonRejects)

(***************************************************************************)

(* The page.tsx dashboard in a development build: React runs the mount     *)
(* effect, its cleanup and the effect again before any response arrives,   *)
(* so two fetchBettingData invocations are in flight together.             *)
(***************************************************************************)

\* page.tsx:38-40 run twice; each run is page.tsx:42-47 up to the await.
MountTwice ==
    /\ reqs = <<>>
    /\ Len(reqs) + 2 <= MaxFetches
    /\ loading' = TRUE
    /\ error' = Null
    /\ reqs' = <<[kind |-> "mount", pc |-> "fetch"], [kind |-> "mount", pc |-> "fetch"]>>
    /\ UNCHANGED <<opportunities, performance, last>>
    /\ UNCHANGED <<pureVars, routeVars, themedVars>>

NextStrict ==
    \/ MountTwice
    \/ ClickRefresh
    \/ ClickRetry
    \/ \E i \in DOMAIN reqs : FetchRejects(i)
    \/ \E i \in DOMAIN reqs : ResponseNotOk(i)
    \/ \E i \in DOMAIN reqs : ResponseOk(i)
    \/ \E i \in DOMAIN reqs : JsonRejects(i)
    \/ \E i \in DOMAIN reqs : JsonResolvesNull(i)
    \/ \E i \in DOMAIN reqs : \E data \in Payloads : JsonResolves(i, data)

SpecStrict == Init /\ [][NextStrict]_vars

(***************************************************************************)
(* GET /api/predictions (route.ts): the two sheet reads and the conversion *)
(* of each table of cell texts to an array of records                      *)
(***************************************************************************)

\* arr.slice(start), start counted from 0.
Slice(arr, start) == SubSeq(arr, start + 1, Len(arr))

\* arr[index], index counted from 0; undefined beyond the end.
At(arr, index) == IF index + 1 \in DOMAIN arr THEN arr[index + 1] ELSE Undefined

\* const obj: SheetRow = {}   route.ts:70, 80
EmptyObject == [key \in {} |-> <<>>]

\* obj[key] = value with the first assignment of a key kept.
Assign_KeepsFirst(obj, key, value) == obj @@ (key :> value)

\* obj[key] = value
Assign(obj, key, value) == (key :> value) @@ obj

\* The loop body storing the cell without a default.
HeaderStep_NoDefault(obj, header, index, row) == Assign(obj, header, At(row, index))

\* route.ts:72, 82   obj[header] = row[index] || ''
HeaderStep(obj, header, index, row) == Assign(obj, header, OrEmpty(At(row, index)))

\* route.ts:71-73, 81-83   headers.forEach((header, index) => ...)
RECURSIVE ForEachHeader(_, _, _, _)
ForEachHeader(headers, row, index, obj) ==
    IF index >= Len(headers) THEN obj
    ELSE ForEachHeader(headers, row, index + 1,
                       HeaderStep(obj, At(headers, index), index, row))

\* route.ts:68-75, 78-85   the callback of map
RowObject(headers, row) == ForEachHeader(headers, row, 0, EmptyObject)

\* rows.map(row => ...)
MapRows(rows, headers) == [k \in DOMAIN rows |-> RowObject(headers, rows[k])]

\* The predictions conversion with the header row kept among the data rows.
RoutePredictions_KeepsHeader(predictionsData) ==
    IF Len(predictionsData) > 0
    THEN MapRows(Slice(predictionsData, 0), At(predictionsData, 0))
    ELSE <<>>

\* route.ts:67-75
RoutePredictions(predictionsData) ==
    IF Len(predictionsData) > 1
    THEN MapRows(Slice(predictionsData, 1), At(predictionsData, 0))
    ELSE <<>>

\* The cover conversion reading the table as the predictions one is read.
RouteCoverAnalysis_FirstRowHeader(coverData) ==
    IF Len(coverData) > 1
    THEN MapRows(Slice(coverData, 1), At(coverData, 0))
    ELSE <<>>

\* route.ts:77-85
RouteCoverAnalysis(coverData) ==
    IF Len(coverData) > 4
    THEN MapRows(Slice(coverData, 4), At(coverData, 3))
    ELSE <<>>

\* route.ts:63-64   xResponse.data.values || []
ValuesOrEmpty(sheetResponse) ==
    IF "values" \in DOMAIN sheetResponse.data THEN sheetResponse.data.values ELSE <<>>

\* new Date().toISOString(), not computed.
IsoNow == "toISOString"

\* route.ts:87-91
SuccessResponse(predictionsData, coverData) ==
    [status |-> 200,
     body   |-> [predictions   |-> RoutePredictions(predictionsData),
                 coverAnalysis |-> RouteCoverAnalysis(coverData),
                 lastUpdated   |-> IsoNow]]

\* route.ts:93-99
ErrorResponse == [status |-> 500, body |-> [error |-> "Failed to fetch data"]]

\* Most columns of a table row and most data rows of a table.
MaxCols == 2

MaxDataRows == 2

\* Header and data cell texts.
HeaderTexts == {<<"H">>, <<"K">>}

CellTexts == {<<>>, <<"x">>}

\* Two title blocks of the Cover Analysis sheet (its first three rows).
TitleBlocks ==
    { << <<<<"T">>>>, <<>>, <<<<"H">>, <<"x">>>> >>,
      << <<<<"K">>, <<"K">>>>, <<<<"x">>>>, <<>> >> }

\* Tables whose first row is the header row, and the empty table.
HeaderFirstTables(cols, rows) ==
    {<<>>} \cup
    {<<h>> \o d : h \in SeqsUpTo(HeaderTexts, cols),
                  d \in SeqsUpTo(SeqsUpTo(CellTexts, cols), rows)}

\* Tables of a title block, a header row and data rows, and their prefixes.
TitledTables(cols, rows) ==
    LET full == {t \o <<h>> \o d : t \in TitleBlocks,
                                   h \in SeqsUpTo(HeaderTexts, cols),
                                   d \in SeqsUpTo(SeqsUpTo(CellTexts, cols), rows)}
        short == {SubSeq(t \o <<h>>, 1, k) : t \in TitleBlocks,
                                             h \in SeqsUpTo(HeaderTexts, cols),
                                             k \in 0..3}
    IN  full \cup short

\* One table of each layout, used while the other sheet is varied.
SamplePredictionsTable == << <<<<"H">>, <<"K">>>>, <<<<"x">>>> >>

SampleCoverTable ==
    << <<<<"T">>>>, <<>>, <<>>, <<<<"K">>>>, <<<<"x">>, <<"x">>>>, <<>> >>

\* What values.get resolves to: a range with values, or one without any.
SheetResponses(tables) ==
    {[data |-> [range |-> "A:Z"]]} \cup {[data |-> [values |-> t]] : t \in tables}

\* The sheets are varied one at a time.
CoverResponsesFor(sheetResponse) ==
    IF sheetResponse = [data |-> [values |-> SamplePredictionsTable]]
    THEN SheetResponses(TitledTables(MaxCols, MaxDataRows))
    ELSE SheetResponses({SampleCoverTable})

\* route.ts:93-99, the catch block.
Respond500 ==
    /\ response' = ErrorResponse
    /\ routePc' = "responded"

\* route.ts:16-45, the credentials are built or read.
CredentialsLoaded ==
    /\ routePc = "credentials"
    /\ routePc' = "predictions"
    /\ UNCHANGED <<predictionsResponse, coverResponse, response>>
    /\ UNCHANGED <<pureVars, pageVars, themedVars>>

\* route.ts:36, readFileSync or JSON.parse throws.
CredentialsFail ==
    /\ routePc = "credentials"
    /\ Respond500
    /\ UNCHANGED <<predictionsResponse, coverResponse>>
    /\ UNCHANGED <<pureVars, pageVars, themedVars>>

\* route.ts:48-53, the first values.get resolves.
PredictionsFetched(sheetResponse) ==
    /\ routePc = "predictions"
    /\ predictionsResponse' = sheetResponse
    /\ routePc' = "cover"
    /\ UNCHANGED <<coverResponse, response>>
    /\ UNCHANGED <<pureVars, pageVars, themedVars>>

\* route.ts:49, the first values.get rejects.
PredictionsFetchFails ==
    /\ routePc = "predictions"
    /\ predictionsResponse' = Rejected
    /\ Respond500
    /\ UNCHANGED coverResponse
    /\ UNCHANGED <<pureVars, pageVars, themedVars>>

\* route.ts:56-91, the second values.get resolves and the handler returns.
CoverFetched(sheetResponse) ==
    /\ routePc = "cover"
    /\ coverResponse' = sheetResponse
    /\ response' = SuccessResponse(ValuesOrEmpty(predictionsResponse),
                                   ValuesOrEmpty(sheetResponse))
    /\ routePc' = "responded"
    /\ UNCHANGED predictionsResponse
    /\ UNCHANGED <<pureVars, pageVars, themedVars>>

\* The catch block returning what had been fetched along with the error.
CoverFetchFails_Partial ==
    /\ routePc = "cover"
    /\ coverResponse' = Rejected
    /\ response' = [status |-> 500,
                    body   |-> [error       |-> "Failed to fetch data",
                                predictions |-> RoutePredictions(ValuesOrEmpty(predictionsResponse))]]
    /\ routePc' = "responded"
    /\ UNCHANGED predictionsResponse
    /\ UNCHANGED <<pureVars, pageVars, themedVars>>

\* route.ts:56, the second values.get rejects.
CoverFetchFails ==
    /\ routePc = "cover"
    /\ coverResponse' = Rejected
    /\ Respond500
    /\ UNCHANGED predictionsResponse
    /\ UNCHANGED <<pureVars, pageVars, themedVars>>

InitRoute ==
    /\ predictions = <<>>
    /\ bettingOpps = NoResult
    /\ themedOpps = NoResult
    /\ coverAnalysis = <<>>
    /\ currentOpps = 0
    /\ metrics = InitialPerformance
    /\ pc = "route.ts"
    /\ PageConstructed
    /\ RouteCalled
    /\ ThemedConstructed

NextRoute ==
    \/ CredentialsLoaded
    \/ CredentialsFail
    \/ /\ routePc = "predictions"
       /\ \E r \in SheetResponses(HeaderFirstTables(MaxCols, MaxDataRows)) :
             PredictionsFetched(r)
    \/ PredictionsFetchFails
    \/ /\ routePc = "cover"
       /\ \E r \in CoverResponsesFor(predictionsResponse) : CoverFetched(r)
    \/ CoverFetchFails

SpecRoute == InitRoute /\ [][NextRoute]_vars

(***************************************************************************)
(* The themed dashboard (part_000:28-116): fetchData, the slider and the   *)
(* render guards                                                           *)
(***************************************************************************)

\* part_000:231-233, the range input: min 0, max 10, step 0.5 (in tenths).
SliderMin == 0

SliderMax == 100

SliderStep == 5

SliderValues == {v \in SliderMin..SliderMax : (v - SliderMin) % SliderStep = 0}

\* The body of the route's 500 response (route.ts:95-98).
ErrorPayload == [error |-> "Failed to fetch data"]

\* Prediction arrays of the bodies the themed dashboard receives.
ThemedPredictions(n) ==
    RowArrays(n, {<<"7">>}, {<<"3">>, NA},
              {<<"x">>, <<"0">>, <<"1",".","9">>, <<"4",".","5">>, <<"1","2">>})

\* What response.json() can resolve to: a success object, the error object
\* of a 500 response, or null.
ThemedBodies(n) ==
    {ErrorPayload, NullData}
        \cup {[predictions |-> p, coverAnalysis |-> <<>>] : p \in ThemedPredictions(n)}

\* The object has the two arrays the render reads (part_000:67, 119).
HasArrays(d) == "predictions" \in DOMAIN d /\ "coverAnalysis" \in DOMAIN d

\* part_000:51-65 and the TypeError of part_000:67 on an object without
\* a predictions array.
ThemedView ==
    IF loading THEN "loading"
    ELSE IF dashboardData = NullData THEN "failed"
    ELSE IF ~HasArrays(dashboardData) THEN "crashed"
    ELSE "dashboard"

\* part_000:67-116, the list derived at each render of the dashboard.
ThemedShown ==
    IF ThemedView = "dashboard"
    THEN ThemedBettingOpps(dashboardData.predictions, minEdgeState)
    ELSE <<>>

\* part_000:38-41, fetchData up to the first await.
ThemedStart(kind) ==
    /\ Len(reqs) < MaxFetches
    /\ loading' = TRUE
    /\ reqs' = Append(reqs, [kind |-> kind, pc |-> "fetch"])
    /\ UNCHANGED <<error, opportunities, performance, last>>
    /\ UNCHANGED themedVars
    /\ UNCHANGED <<pureVars, routeVars>>

\* part_000:34-36, the mount effect.
ThemedMount == reqs = <<>> /\ ThemedStart("mount")

\* part_000:207-212, onClick of Refresh Data.
ThemedClickRefresh == ThemedView = "dashboard" /\ ThemedStart("refresh")

\* part_000:228-237, onChange of the range input.
MoveSlider(v) ==
    /\ ThemedView = "dashboard"
    /\ v # minEdgeState
    /\ minEdgeState' = v
    /\ UNCHANGED dashboardData
    /\ UNCHANGED pageVars
    /\ UNCHANGED <<pureVars, routeVars>>

\* part_000:44-48, catch (console.error only) then finally.
ThemedFail(i, outcome) ==
    /\ loading' = FALSE
    /\ Settle(i, outcome, NoData)
    /\ UNCHANGED <<error, opportunities, performance>>
    /\ UNCHANGED themedVars
    /\ UNCHANGED <<pureVars, routeVars>>

\* part_000:41, fetch() rejects.
ThemedFetchRejects(i) ==
    /\ reqs[i].pc = "fetch"
    /\ ThemedFail(i, "rejected")

\* part_000:41-42, a response of any status; response.json() is awaited.
ThemedResponse(i) ==
    /\ reqs[i].pc = "fetch"
    /\ reqs' = [reqs EXCEPT ![i].pc = "json"]
    /\ UNCHANGED <<loading, error, opportunities, performance, last>>
    /\ UNCHANGED themedVars
    /\ UNCHANGED <<pureVars, routeVars>>

\* part_000:42, response.json() rejects.
ThemedJsonRejects(i) ==
    /\ reqs[i].pc = "json"
    /\ ThemedFail(i, "badBody")

\* How the route produced the body.
OutcomeOf(body) ==
    IF body = ErrorPayload THEN "notOk"
    ELSE IF body = NullData THEN "nullBody"
    ELSE "ok"

\* fetchData checking response.ok before adopting the body.
ThemedJsonResolves_ChecksOk(i, body) ==
    /\ reqs[i].pc = "json"
    /\ dashboardData' = IF body = ErrorPayload THEN dashboardData ELSE body
    /\ loading' = FALSE
    /\ Settle(i, OutcomeOf(body), NoData)
    /\ UNCHANGED <<minEdgeState, error, opportunities, performance>>
    /\ UNCHANGED <<pureVars, routeVars>>

\* part_000:42-43 and 46-48, setData(result) then finally.
ThemedJsonResolves(i, body) ==
    /\ reqs[i].pc = "json"
    /\ dashboardData' = body
    /\ loading' = FALSE
    /\ Settle(i, OutcomeOf(body), NoData)
    /\ UNCHANGED <<minEdgeState, error, opportunities, performance>>
    /\ UNCHANGED <<pureVars, routeVars>>

InitThemed ==
    /\ predictions = <<>>
    /\ bettingOpps = NoResult
    /\ themedOpps = NoResult
    /\ coverAnalysis = <<>>
    /\ currentOpps = 0
    /\ metrics = InitialPerformance
    /\ pc = "part_000"
    /\ PageConstructed
    /\ RouteCalled
    /\ ThemedConstructed

NextThemed ==
    \/ ThemedMount
    \/ ThemedClickRefresh
    \/ \E v \in SliderValues : MoveSlider(v)
    \/ \E i \in DOMAIN reqs : ThemedFetchRejects(i)
    \/ \E i \in DOMAIN reqs : ThemedResponse(i)
    \/ \E i \in DOMAIN reqs : ThemedJsonRejects(i)
    \/ \E i \in DOMAIN reqs :
          /\ reqs[i].pc = "json"
          /\ \E body \in ThemedBodies(MaxPayloadRows) : ThemedJsonResolves(i, body)

SpecThemed == InitThemed /\ [][NextThemed]_vars

(***************************************************************************)

(* Claims about the page.tsx dashboard (Spec)                              *)
(***************************************************************************)

Failures == {"rejected", "notOk", "badBody"}

\* A step in which some invocation settles with the given outcomes.
Settles(outcomes) ==
    \E i \in DOMAIN reqs :
        /\ reqs[i].pc # "done"
        /\ reqs'[i].pc = "done"
        /\ last'.id = i
        /\ last'.outcome \in outcomes

\* C9: when a refresh's fetch fails (transport error, non-OK status or
\* unparseable body), the page is in the full-page error view with Retry
\* once that refresh has finished, and nothing of the fetched data is
\* rendered while the error is set.
C9_FailureShowsErrorPage ==
    [][Settles(Failures) =>
          /\ View' = "error"
          /\ RetryOffered'
          /\ Rendered'.opportunities = <<>>
          /\ Rendered'.performance = "none"]_vars

\* C9 witness: a refresh failed after data had been loaded and shown.
C9_Witness ==
    /\ last.kind = "refresh"
    /\ last.outcome \in Failures
    /\ reqs[last.id].pc = "done"
    /\ opportunities # <<>>
    /\ View = "error"

C11_EdgeNonNegative ==
    pc = "page" => \A i \in DOMAIN bettingOpps : bettingOpps[i].edge >= 0

\* The row has a usable Line and a non-blank Edge that parses to a number.
Eligible(pred) ==
    /\ ~LineUnavailable(pred)
    /\ pred.Edge \notin {Undefined, <<>>}
    /\ ~isNaN(parseFloat(pred.Edge))

\* The records returned for the row with the given Matchup.
OppsOf(matchup) == {i \in DOMAIN bettingOpps : bettingOpps[i].matchup = matchup}

\* C12: a row yields a returned record exactly when its Line is usable and
\* its Edge is non-blank and parses to a number; an Edge of zero is kept
\* with edge 0; the result is as long as the number of such rows and never
\* longer than the input.
C12_StrictInclusion ==
    (pc = "page" /\ predictions # UndefinedArray) =>
        /\ \A k \in DOMAIN predictions :
              /\ Eligible(predictions[k]) <=> OppsOf(predictions[k].Matchup) # {}
              /\ (Eligible(predictions[k]) /\ parseFloat(predictions[k].Edge).v = 0)
                    => \A i \in OppsOf(predictions[k].Matchup) : bettingOpps[i].edge = 0
        /\ Len(bettingOpps)
              = Cardinality({k \in DOMAIN predictions : Eligible(predictions[k])})
        /\ Len(bettingOpps) <= Len(predictions)

\* C12 witness: a row whose Edge cell is '0' was returned with edge 0.
C12_Witness ==
    /\ pc = "page"
    /\ predictions # UndefinedArray
    /\ Len(predictions) = 1
    /\ predictions[1].Edge = <<"0">>
    /\ Len(bettingOpps) = 1
    /\ bettingOpps[1].edge = 0

\* C13: a row that passes the filter is returned even when its Predicted
\* Difference or its Line does not parse as a number, with that number 0.
C13_MalformedNumberIsZero ==
    /\ (pc = "page" /\ predictions # UndefinedArray) =>
          \A k \in DOMAIN predictions :
              Eligible(predictions[k]) =>
                  /\ OppsOf(predictions[k].Matchup) # {}
                  /\ \A i \in OppsOf(predictions[k].Matchup) :
                        /\ isNaN(parseFloat(predictions[k].PredictedDifference))
                              => bettingOpps[i].ourLine = 0
                        /\ isNaN(parseFloat(predictions[k].Line))
                              => bettingOpps[i].vegasLine = 0
    /\ pc = "themed" =>
          \A i \in DOMAIN themedOpps :
              isNaN(parseFloat(themedOpps[i].Line)) => themedOpps[i].vegasLine = 0

\* C13 witness: a row with Line 'TBD' and Predicted Difference 'x' was
\* returned with both numbers 0.
C13_Witness ==
    /\ pc = "page"
    /\ predictions # UndefinedArray
    /\ Len(predictions) = 1
    /\ predictions[1].Line = <<"T","B","D">>
    /\ predictions[1].PredictedDifference = <<"x">>
    /\ Len(bettingOpps) = 1
    /\ bettingOpps[1].vegasLine = 0
    /\ bettingOpps[1].ourLine = 0

(***************************************************************************)
(* Further claims about the page.tsx dashboard (Spec)                      *)
(***************************************************************************)

\* C14: when a refresh succeeds, the opportunities state becomes
\* processPredictions of that response's predictions alone, whatever was
\* displayed before: nothing of an earlier payload is kept, merged or appended.
C14_FullyReplaced ==
    [][Settles({"ok"}) =>
          /\ opportunities' = processPredictions(last'.data.predictions)
          /\ Len(opportunities') <= MaxPayloadRows
          /\ (opportunities # <<>> /\ last'.data.predictions \in {UndefinedArray, <<>>})
                => opportunities' = <<>>]_vars

\* C14 witness: a Refresh clicked while records were displayed succeeded with
\* an empty predictions array, and the list is empty.
C14_Witness ==
    /\ last.kind = "refresh"
    /\ last.outcome = "ok"
    /\ last.id = 3
    /\ last.data.predictions = <<>>
    /\ opportunities = <<>>
    /\ performance.currentWeekOpportunities = 0

\* Every invocation started so far has returned.
AllResolved == reqs # <<>> /\ \A i \in DOMAIN reqs : reqs[i].pc = "done"

\* C15: once overlapping refreshes have all resolved, the displayed state is
\* the one the last response to resolve determines: its opportunities and
\* performance on the dashboard when it succeeded, the error page when it
\* failed, whatever the earlier-resolving one did.
C15_LastResponseWins ==
    AllResolved =>
        /\ last.outcome = "ok" =>
              /\ View = "dashboard"
              /\ Rendered.opportunities = processPredictions(last.data.predictions)
              /\ Rendered.performance =
                    calculatePerformance(last.data.coverAnalysis,
                                         Len(processPredictions(last.data.predictions)))
        /\ last.outcome \in Failures \cup {"nullBody"} => View = "error"

\* C20: in every reachable state of the page.tsx dashboard, initially and
\* after any sequence of successful and failed refreshes, the performance
\* summary's currentWeekOpportunities equals the length of the opportunities
\* list.
C20_CountCarriedThrough ==
    performance.currentWeekOpportunities = Len(opportunities)

\* C20 witness: a refresh failed after a response with one qualifying row and
\* no cover rows had been loaded; the count is still one.
C20_Witness ==
    /\ last.outcome \in Failures
    /\ last.id >= 2
    /\ Len(opportunities) = 1
    /\ performance.currentWeekOpportunities = 1
    /\ performance.totalBets = 0

(***************************************************************************)
(* Claims about failed refreshes and the loading state (Spec)              *)
(***************************************************************************)

\* C25: a failed refresh changes only loading and error: neither its start
\* nor its failure changes the stored opportunities or performance summary,
\* which change only in the step where a refresh succeeds.
C25_FailureKeepsData ==
    [][/\ Settles(Failures \cup {"nullBody"}) =>
             /\ opportunities' = opportunities
             /\ performance' = performance
             /\ error' # Null
             /\ loading' = FALSE
       /\ (opportunities' # opportunities \/ performance' # performance) =>
             Settles({"ok"})]_vars

\* C25 witness: a Refresh failed on an unparseable body while one
\* opportunity was stored, and it is still stored.
C25_Witness ==
    /\ last.kind = "refresh"
    /\ last.outcome = "badBody"
    /\ loading = FALSE
    /\ error = BadBodyMessage
    /\ Len(opportunities) = 1
    /\ performance.currentWeekOpportunities = 1

(***************************************************************************)

\* The invocations of fetchBettingData that have not returned.
InFlight == {i \in DOMAIN reqs : reqs[i].pc # "done"}

\* C26: every refresh that is started eventually leaves the loading state,
\* whether it succeeds or fails, given that its fetch settles; and while
\* exactly one refresh is in flight loading is true.
C26_LoadingEnds ==
    /\ [](Cardinality(InFlight) = 1 => loading)
    /\ (InFlight # {}) ~> (InFlight = {} /\ ~loading)

\* C26 witness: a Refresh whose fetch rejected has returned and loading is
\* false.
C26_Witness ==
    /\ last.kind = "refresh"
    /\ last.outcome = "rejected"
    /\ InFlight = {}
    /\ loading = FALSE

(***************************************************************************)

Succeeded == routePc = "responded" /\ response.status = 200

predictionsData == ValuesOrEmpty(predictionsResponse)

coverData == ValuesOrEmpty(coverResponse)

\* The right-most column of the header row holding the text h.
LastColumn(headers, h) ==
    CHOOSE j \in DOMAIN headers :
        /\ headers[j] = h
        /\ \A k \in DOMAIN headers : headers[k] = h => k <= j

\* The cell of a row at a column, '' when the row ends before it.
CellOrBlank(row, j) == IF j \in DOMAIN row THEN row[j] ELSE <<>>

\* The record the specification describes for a header row and a data row.
RecordFor(headers, row) ==
    [h \in {headers[j] : j \in DOMAIN headers} |->
        CellOrBlank(row, LastColumn(headers, h))]

\* C16: the predictions conversion returns an empty sequence for a table of
\* zero rows or of a header row only, and otherwise exactly one record per
\* row after the first, in the order of the rows.
C16_PredictionsRows ==
    Succeeded =>
        LET out == response.body.predictions IN
        /\ Len(predictionsData) <= 1 => out = <<>>
        /\ Len(predictionsData) > 1 =>
              /\ Len(out) = Len(predictionsData) - 1
              /\ \A k \in DOMAIN out :
                    out[k] = RecordFor(predictionsData[1], predictionsData[k + 1])

\* C16 witness: two different data rows under a one-column header came out
\* as two records in the rows' order.
C16_Witness ==
    /\ Succeeded
    /\ predictionsData = << <<<<"H">>>>, <<<<"x">>>>, <<>> >>
    /\ Len(response.body.predictions) = 2
    /\ response.body.predictions[1][<<"H">>] = <<"x">>
    /\ response.body.predictions[2][<<"H">>] = <<>>

\* A header row without a repeated text.
Distinct(headers) ==
    \A i, j \in DOMAIN headers : headers[i] = headers[j] => i = j

\* Every record of out has the texts of headers as its keys, each holding a
\* string: the row's cell at the header's column, '' beyond the row's end.
WellKeyed(out, headers, rows) ==
    \A k \in DOMAIN out :
        /\ DOMAIN out[k] = {headers[j] : j \in DOMAIN headers}
        /\ \A h \in DOMAIN out[k] : out[k][h] \in CellTexts
        /\ Distinct(headers) =>
              \A j \in DOMAIN headers :
                  out[k][headers[j]] = IF j <= Len(rows[k]) THEN rows[k][j] ELSE <<>>

\* C17: every normalized record, of either table, has exactly the header
\* texts as keys, each mapped to the cell at the header's column or to ''
\* when the row is shorter; cells beyond the last header are dropped and
\* every value is a string.
C17_RecordShape ==
    Succeeded =>
        /\ Len(predictionsData) > 1 =>
              WellKeyed(response.body.predictions, predictionsData[1],
                        Slice(predictionsData, 1))
        /\ Len(coverData) > 4 =>
              WellKeyed(response.body.coverAnalysis, coverData[4],
                        Slice(coverData, 4))

\* C17 witness: under the header row H, K the row (x) gave K the empty
\* string, and under the cover header row K the row (x, x) lost its second
\* cell.
C17_Witness ==
    /\ Succeeded
    /\ predictionsData = << <<<<"H">>, <<"K">>>>, <<<<"x">>>>, <<<<"x">>, <<"x">>>> >>
    /\ response.body.predictions[1] = (<<"H">> :> <<"x">>) @@ (<<"K">> :> <<>>)
    /\ coverData = SampleCoverTable
    /\ response.body.coverAnalysis[1] = (<<"K">> :> <<"x">>)

\* C18: for the cover-analysis table the fourth row is the header row and
\* the three rows before it contribute nothing: the output has one record
\* per row from the fifth on, keyed by the fourth row's cells, and is empty
\* when the table has four or fewer rows.
C18_CoverHeaderRow ==
    Succeeded =>
        LET out == response.body.coverAnalysis IN
        /\ Len(coverData) <= 4 => out = <<>>
        /\ Len(coverData) > 4 =>
              /\ Len(out) = Len(coverData) - 4
              /\ \A k \in DOMAIN out :
                    /\ out[k] = RecordFor(coverData[4], coverData[k + 4])
                    /\ DOMAIN out[k] = {coverData[4][j] : j \in DOMAIN coverData[4]}

\* C18 witness: a table whose title block holds the text H and whose fourth
\* row is K gave records keyed by K alone.
C18_Witness ==
    /\ Succeeded
    /\ Len(coverData) = 6
    /\ coverData[3] = <<<<"H">>, <<"x">>>>
    /\ coverData[4] = <<<<"K">>>>
    /\ Len(response.body.coverAnalysis) = 2
    /\ DOMAIN response.body.coverAnalysis[1] = {<<"K">>}

\* C19: when the header row holds the same text in two columns, each record
\* has one entry for that text and its value is the later column's cell
\* ('' when the row ends before that column).
C19_DuplicateHeader ==
    Succeeded =>
        \A k \in DOMAIN response.body.predictions :
            LET headers == predictionsData[1]
                row     == predictionsData[k + 1]
                rec     == response.body.predictions[k]
            IN  \A i, j \in DOMAIN headers :
                    (i < j /\ headers[i] = headers[j]
                        /\ \A m \in DOMAIN headers : headers[m] = headers[j] => m <= j)
                    => /\ Cardinality(DOMAIN rec) < Len(headers)
                       /\ rec[headers[j]] = CellOrBlank(row, j)

\* C19 witness: under the header row H, H the row ('', x) gave H the value x.
C19_Witness ==
    /\ Succeeded
    /\ predictionsData = << <<<<"H">>, <<"H">>>>, <<<<>>, <<"x">>>> >>
    /\ response.body.predictions = << (<<"H">> :> <<"x">>) >>

(***************************************************************************)
(* The band groups (SpecOpps)                                              *)
(***************************************************************************)

RECURSIVE SumLen(_, _)
SumLen(groups, bands) ==
    IF bands = {} THEN 0
    ELSE LET b == CHOOSE x \in bands : TRUE
         IN  Len(groups[b]) + SumLen(groups, bands \ {b})

\* C28: grouping by band partitions the opportunity list: each opportunity
\* is in exactly the group its edgeBand names, the group sizes sum to the
\* length of the list, each group is in descending edge order, and with the
\* groups rendered in the order 12+, 9-12, 7-9, 5-7, 2-5, 0-2 every
\* opportunity of an earlier group has an edge >= every one of a later group.
C28_GroupsPartition ==
    pc = "page" =>
        LET groups == groupedOpportunities(bettingOpps) IN
        /\ DOMAIN groups = Bands
        /\ \A b \in Bands : \A i \in DOMAIN groups[b] : groups[b][i].edgeBand = b
        /\ \A k \in DOMAIN bettingOpps :
              Cardinality({b \in Bands :
                  \E i \in DOMAIN groups[b] : groups[b][i] = bettingOpps[k]}) = 1
        /\ SumLen(groups, Bands) = Len(bettingOpps)
        /\ \A b \in Bands : \A i, j \in DOMAIN groups[b] :
              i < j => groups[b][i].edge >= groups[b][j].edge
        /\ \A m, n \in DOMAIN BandOrder : m < n =>
              \A i \in DOMAIN groups[BandOrder[m]] : \A j \in DOMAIN groups[BandOrder[n]] :
                  groups[BandOrder[m]][i].edge >= groups[BandOrder[n]][j].edge
        /\ Cards(bettingOpps) = bettingOpps

\* C28 witness: a list of three opportunities falls into the groups 12+, 2-5
\* and 0-2.
C28_Witness ==
    /\ pc = "page"
    /\ Len(bettingOpps) = 3
    /\ Len(groupedOpportunities(bettingOpps)["12+"]) = 1
    /\ Len(groupedOpportunities(bettingOpps)["2-5"]) = 1
    /\ Len(groupedOpportunities(bettingOpps)["0-2"]) = 1

(***************************************************************************)

(* The card of an opportunity (SpecOpps)                                   *)
(***************************************************************************)

\* C29: the card of an opportunity shows the 'Take ...' recommendation
\* exactly when its betRecommendation is not 'Below threshold' (edge >= 2.0)
\* and the no-value text exactly when its edge is below 2.0.
C29_CardAgrees ==
    pc = "page" =>
        \A i \in DOMAIN bettingOpps :
            LET opp == bettingOpps[i] IN
            /\ CardLine(opp).shows = "recommendation"
                  <=> opp.betRecommendation # BelowThreshold
            /\ CardLine(opp).shows = "noValue" <=> opp.edge < Threshold

(***************************************************************************)

(* The two band chains compared (SpecOpps)                                 *)
(***************************************************************************)

\* C23: the top-down '>=' chain of page.tsx and the bottom-up '<' chains of
\* the themed variants give every edge value the same band label.
C23_ChainsAgree ==
    /\ pc = "page" =>
          \A i \in DOMAIN bettingOpps :
              /\ bettingOpps[i].edgeBand = EdgeBandThemed(bettingOpps[i].edge)[1]
              /\ bettingOpps[i].edgeBand = EdgeBandTernary(bettingOpps[i].edge)
    /\ pc = "themed" =>
          \A i \in DOMAIN themedOpps :
              /\ themedOpps[i].edgeBand = EdgeBandPage(themedOpps[i].edge)[1]
              /\ themedOpps[i].edgeBand = EdgeBandTernary(themedOpps[i].edge)

\* C23 witness: page.tsx classified the breakpoint 12.0 and the themed chains
\* agree on '12+'.
C23_Witness ==
    /\ pc = "page"
    /\ Len(bettingOpps) = 1
    /\ bettingOpps[1].edge = 120
    /\ bettingOpps[1].edgeBand = "12+"
    /\ EdgeBandThemed(120)[1] = "12+"

(***************************************************************************)

(* Further claims about calculatePerformance (SpecPerf)                    *)
(***************************************************************************)

\* C21: called with an empty or absent outcome array, calculatePerformance
\* returns totalBets 0, wins 0, losses 0, winRate 0 and the opportunity count
\* it was given, and the call returns (it does not raise).
C21_SafeOnEmpty ==
    (pc = "perf" /\ (coverAnalysis = UndefinedArray \/ Len(coverAnalysis) = 0)) =>
        metrics = [totalBets |-> 0, wins |-> 0, losses |-> 0,
                   winRate |-> [n |-> 0, d |-> 1],
                   currentWeekOpportunities |-> currentOpps]

\* C21 witness: the call with an absent array and two opportunities returned.
C21_Witness ==
    /\ pc = "perf"
    /\ coverAnalysis = UndefinedArray
    /\ currentOpps = 2
    /\ metrics.currentWeekOpportunities = 2
    /\ metrics.totalBets = 0

(***************************************************************************)
(* Claims about the GET handler as a whole (SpecRoute)                     *)
(***************************************************************************)

\* values.get resolved for this sheet.
Resolved(sheetResponse) == "data" \in DOMAIN sheetResponse

\* C24: the GET handler answers all or nothing.  When the credentials cannot
\* be loaded or either values.get rejects, the response is status 500 with
\* an error field only, also when the predictions had been fetched; otherwise
\* it is status 200 with predictions, coverAnalysis and lastUpdated together.
\* The handler always returns a response.
C24_AllOrNothing ==
    /\ routePc \in {"credentials", "predictions", "cover", "responded"}
    /\ routePc # "responded" => response = NoResponse
    /\ routePc = "responded" =>
          IF Resolved(predictionsResponse) /\ Resolved(coverResponse)
          THEN /\ response.status = 200
               /\ DOMAIN response.body = {"predictions", "coverAnalysis", "lastUpdated"}
          ELSE /\ response.status = 500
               /\ DOMAIN response.body = {"error"}
               /\ response.body.error = "Failed to fetch data"

\* C24 witness: the predictions were fetched (with data rows), the cover
\* fetch rejected, and the response is the bare error.
C24_Witness ==
    /\ routePc = "responded"
    /\ Resolved(predictionsResponse)
    /\ Len(ValuesOrEmpty(predictionsResponse)) > 1
    /\ coverResponse = Rejected
    /\ response = ErrorResponse

(***************************************************************************)

(* Claims about the themed dashboard (SpecThemed)                          *)
(***************************************************************************)

\* C22: in the themed variants a refresh whose fetch fails ends in the
\* full-page failure view with no data shown, also when data had been loaded
\* before, and the error object of a 500 response is never adopted as the
\* dashboard's data.
C22_ThemedFailureShown ==
    /\ (AllResolved /\ last.outcome \in Failures) =>
          /\ ThemedView = "failed"
          /\ ThemedShown = <<>>
    /\ dashboardData # ErrorPayload

\* s begins with the text t
StartsWith(s, t) == Len(t) <= Len(s) /\ SubSeq(s, 1, Len(t)) = t

\* The rows of the stored payload that have a usable Line.
UsableRows ==
    {k \in DOMAIN dashboardData.predictions :
        ~LineUnavailable(dashboardData.predictions[k])}

\* The Matchup cells of the listed opportunities.
ShownMatchups == {ThemedShown[i].Matchup : i \in DOMAIN ThemedShown}

\* The list holds one record per matchup of `matchups`, each with a
\* recommendation that starts with 'Take '.
ListsExactly(matchups) ==
    /\ ShownMatchups = matchups
    /\ Len(ThemedShown) = Cardinality(matchups)
    /\ \A i \in DOMAIN ThemedShown :
          /\ StartsWith(ThemedShown[i].betRec, Take)
          /\ ThemedShown[i].edge >= minEdgeState

====
